---- MODULE Spec2Model ----
(***************************************************************************)
(* Model of networkteam/semver: the recursive-descent Parser (parser       *)
(* source, struct Parser), the regular-expression ParseVersion, the        *)
(* rendering Version.String and the precedence comparator (Equals, Before, *)
(* comparePreRelease, compareIdentifiers).                                  *)
(*                                                                         *)
(* A Go string is modelled as a sequence of one-character strings; Ord     *)
(* gives the byte value of a character, so that byte-wise comparison and   *)
(* character classes are computed as the code computes them.               *)
(***************************************************************************)
EXTENDS Integers, Sequences, FiniteSets, TLC

(***************************************************************************)
(* Bytes and strings                                                       *)
(***************************************************************************)
Ord(ch) ==
    CASE ch = "+" -> 43 [] ch = "-" -> 45 [] ch = "." -> 46
      [] ch = "0" -> 48 [] ch = "1" -> 49 [] ch = "2" -> 50 [] ch = "3" -> 51
      [] ch = "4" -> 52 [] ch = "5" -> 53 [] ch = "6" -> 54 [] ch = "7" -> 55
      [] ch = "8" -> 56 [] ch = "9" -> 57
      [] ch = "A" -> 65 [] ch = "Z" -> 90
      [] ch = "a" -> 97 [] ch = "b" -> 98 [] ch = "c" -> 99 [] ch = "e" -> 101
      [] ch = "h" -> 104 [] ch = "l" -> 108 [] ch = "p" -> 112
      [] ch = "r" -> 114 [] ch = "t" -> 116 [] ch = "z" -> 122

DigitChars == <<"0", "1", "2", "3", "4", "5", "6", "7", "8", "9">>

\* Go's built-in string comparison a < b: byte-wise lexicographic
RECURSIVE StrLess(_, _)
StrLess(a, b) ==
    IF b = <<>> THEN FALSE
    ELSE IF a = <<>> THEN TRUE
    ELSE IF Ord(Head(a)) # Ord(Head(b)) THEN Ord(Head(a)) < Ord(Head(b))
    ELSE StrLess(Tail(a), Tail(b))

IsDigitByte(ch) == Ord(ch) >= 48 /\ Ord(ch) <= 57

RECURSIVE DigitsValue(_)
DigitsValue(s) ==
    IF s = <<>> THEN 0
    ELSE 10 * DigitsValue(SubSeq(s, 1, Len(s) - 1)) + (Ord(s[Len(s)]) - 48)

\* strconv.Atoi: optional sign, then one or more decimal digits.  The
\* ErrRange branch needs 19 digits or more; every string of this model is
\* shorter, so the value always fits.
Atoi(s) ==
    LET body == IF s # <<>> /\ (s[1] = "+" \/ s[1] = "-") THEN Tail(s) ELSE s
        neg  == s # <<>> /\ s[1] = "-"
    IN  IF body = <<>> \/ \E i \in 1..Len(body) : ~IsDigitByte(body[i])
        THEN [ok |-> FALSE, val |-> 0]
        ELSE [ok |-> TRUE,
              val |-> IF neg THEN 0 - DigitsValue(body) ELSE DigitsValue(body)]

\* fmt.Sprintf("%d", n) for n >= 0
RECURSIVE Itoa(_)
Itoa(n) ==
    IF n < 10 THEN <<DigitChars[n + 1]>>
    ELSE Itoa(n \div 10) \o <<DigitChars[(n % 10) + 1]>>

\* strings.Split(s, "."), with cur the identifier being collected
RECURSIVE SplitFrom(_, _)
SplitFrom(s, cur) ==
    IF s = <<>> THEN <<cur>>
    ELSE IF Head(s) = "." THEN <<cur>> \o SplitFrom(Tail(s), <<>>)
    ELSE SplitFrom(Tail(s), Append(cur, Head(s)))

Split(s) == SplitFrom(s, <<>>)

(***************************************************************************)
(* Version and its rendering                                               *)
(***************************************************************************)
Version(major, minor, patch, preRelease, build) ==
    [Major |-> major, Minor |-> minor, Patch |-> patch,
     PreRelease |-> preRelease, Build |-> build]

NoVersion == Version(-1, -1, -1, <<>>, <<>>)

StringNoBuild(v) ==
    Itoa(v.Major) \o <<".">> \o Itoa(v.Minor) \o <<".">> \o Itoa(v.Patch)
      \o (IF v.PreRelease # <<>> THEN <<"-">> \o v.PreRelease ELSE <<>>)

String(v) ==
    Itoa(v.Major) \o <<".">> \o Itoa(v.Minor) \o <<".">> \o Itoa(v.Patch)
      \o (IF v.PreRelease # <<>> THEN <<"-">> \o v.PreRelease ELSE <<>>)
      \o (IF v.Build # <<>> THEN <<"+">> \o v.Build ELSE <<>>)

(***************************************************************************)
(* ParseVersion by regular expression                                      *)
(***************************************************************************)
IsIdentifierByte(ch) ==
    \/ IsDigitByte(ch)
    \/ Ord(ch) >= 65 /\ Ord(ch) <= 90
    \/ Ord(ch) >= 97 /\ Ord(ch) <= 122
    \/ ch = "-"

\* (0|[1-9]\d*)
ValidNumeral(t) ==
    /\ t # <<>>
    /\ \A i \in 1..Len(t) : IsDigitByte(t[i])
    /\ Len(t) = 1 \/ t[1] # "0"

\* [0-9A-Za-z-]+(?:\.[0-9A-Za-z-]+)*
ValidSection(t) ==
    \A n \in 1..Len(Split(t)) :
        /\ Split(t)[n] # <<>>
        /\ \A i \in 1..Len(Split(t)[n]) : IsIdentifierByte(Split(t)[n][i])

\* index of the first character of s that is in chars, Len(s) + 1 if none
IndexOf(s, chars) ==
    IF \E i \in 1..Len(s) : s[i] \in chars
    THEN CHOOSE i \in 1..Len(s) :
            s[i] \in chars /\ \A j \in 1..(i - 1) : s[j] \notin chars
    ELSE Len(s) + 1

\* the parts of an input the expression tells apart: the version core up to
\* the first '-' or '+', the pre-release after a '-' up to the first '+',
\* the build after that '+'
CorePart(s) == SubSeq(s, 1, IndexOf(s, {"-", "+"}) - 1)
AfterCore(s) == SubSeq(s, IndexOf(s, {"-", "+"}), Len(s))
HasPre(s) == AfterCore(s) # <<>> /\ AfterCore(s)[1] = "-"
PrePart(s) ==
    IF HasPre(s) THEN SubSeq(AfterCore(s), 2, IndexOf(AfterCore(s), {"+"}) - 1)
    ELSE <<>>
AfterPre(s) ==
    IF HasPre(s)
    THEN SubSeq(AfterCore(s), IndexOf(AfterCore(s), {"+"}), Len(AfterCore(s)))
    ELSE AfterCore(s)
HasBuild(s) == AfterPre(s) # <<>>
BuildPart(s) == SubSeq(AfterPre(s), 2, Len(AfterPre(s)))

ValidCore(t) ==
    /\ Len(Split(t)) = 3
    /\ \A k \in 1..3 : ValidNumeral(Split(t)[k])

\* ParseVersion: FindStringSubmatch of the expression, then the fields
ParseVersion(version) ==
    IF /\ ValidCore(CorePart(version))
       /\ HasPre(version) => ValidSection(PrePart(version))
       /\ HasBuild(version) => ValidSection(BuildPart(version))
    THEN [ok |-> TRUE,
          v  |-> Version(Atoi(Split(CorePart(version))[1]).val,
                         Atoi(Split(CorePart(version))[2]).val,
                         Atoi(Split(CorePart(version))[3]).val,
                         PrePart(version), BuildPart(version))]
    ELSE [ok |-> FALSE, v |-> NoVersion]

(***************************************************************************)
(* Precedence comparator                                                   *)
(***************************************************************************)
isNumeric(s) == Atoi(s).ok

compareInts(a, b) == IF a < b THEN -1 ELSE IF a > b THEN 1 ELSE 0

compareIdentifiersSkewed(a, b) ==
    IF isNumeric(a) /\ isNumeric(b) THEN compareInts(Atoi(a).val, Atoi(b).val)
    ELSE IF isNumeric(a) THEN -1
    ELSE IF isNumeric(b) THEN -1
    ELSE IF StrLess(a, b) THEN -1
    ELSE IF StrLess(b, a) THEN 1
    ELSE 0

compareIdentifiers(a, b) ==
    IF isNumeric(a) /\ isNumeric(b) THEN compareInts(Atoi(a).val, Atoi(b).val)
    ELSE IF isNumeric(a) THEN -1
    ELSE IF isNumeric(b) THEN 1
    ELSE IF StrLess(a, b) THEN -1
    ELSE IF StrLess(b, a) THEN 1
    ELSE 0

\* the loop of comparePreRelease from index i on
RECURSIVE compareFrom(_, _, _)
compareFrom(aIdentifiers, bIdentifiers, i) ==
    IF i > Len(aIdentifiers) /\ i > Len(bIdentifiers) THEN 0
    ELSE IF i > Len(aIdentifiers) THEN -1
    ELSE IF i > Len(bIdentifiers) THEN 1
    ELSE LET result == compareIdentifiers(aIdentifiers[i], bIdentifiers[i])
         IN  IF result # 0 THEN result
             ELSE compareFrom(aIdentifiers, bIdentifiers, i + 1)

comparePreReleaseLexical(a, b) ==
    IF a = <<>> /\ b = <<>> THEN 0
    ELSE IF a = <<>> THEN 1
    ELSE IF b = <<>> THEN -1
    ELSE IF StrLess(a, b) THEN -1 ELSE IF StrLess(b, a) THEN 1 ELSE 0

comparePreRelease(a, b) ==
    IF a = <<>> /\ b = <<>> THEN 0
    ELSE IF a = <<>> THEN 1
    ELSE IF b = <<>> THEN -1
    ELSE compareFrom(Split(a), Split(b), 1)

EqualsWithBuild(v, other) ==
    /\ v.Major = other.Major
    /\ v.Minor = other.Minor
    /\ v.Patch = other.Patch
    /\ v.PreRelease = other.PreRelease
    /\ v.Build = other.Build

Equals(v, other) ==
    /\ v.Major = other.Major
    /\ v.Minor = other.Minor
    /\ v.Patch = other.Patch
    /\ v.PreRelease = other.PreRelease

Before(v, other) ==
    IF v.Major # other.Major THEN v.Major < other.Major
    ELSE IF v.Minor # other.Minor THEN v.Minor < other.Minor
    ELSE IF v.Patch # other.Patch THEN v.Patch < other.Patch
    ELSE comparePreRelease(v.PreRelease, other.PreRelease) = -1

(***************************************************************************)
(* Bounds of the model                                                     *)
(***************************************************************************)
\* longest input made of version-core characters only
MaxCoreLen == 6
\* longest pre-release/build part appended to a valid version core
MaxTailLen == 5
\* most identifiers in a generated pre-release section
MaxIds == 2

Strings(alphabet, n) == UNION {[1..k -> alphabet] : k \in 0..n}

CoreAlphabet == {"0", "1", ".", "a"}
TailAlphabet == {"-", "+", ".", "a", "0"}
ValidCores == {<<"1", ".", "0", ".", "0">>, <<"0", ".", "1", "0", ".", "2">>}

Inputs ==
    Strings(CoreAlphabet, MaxCoreLen)
      \cup {c \o t : c \in ValidCores, t \in Strings(TailAlphabet, MaxTailLen)}

(***************************************************************************)
(* State                                                                   *)
(***************************************************************************)
VARIABLES
    input,      \* Parser.input
    pos,        \* Parser.pos
    pc,         \* the statement of the Parser about to run
    field,      \* which rule called the shared sub-rule
    sb,         \* the strings.Builder of the running sub-rule
    major, minor, patch, preRelease, build,   \* locals of ParseVersion
    err,        \* the error returned, NoError while there is none
    result,     \* the *Version returned, NoVersion while there is none
    first,      \* the Version of the first parse, kept for the re-parse
    a, b,       \* the two operands of the comparator
    res         \* the last comparator call and what it returned

parserVars == <<input, pos, pc, field, sb, major, minor, patch, preRelease,
                build, err, result, first>>
cmpVars == <<a, b, res>>
vars == <<input, pos, pc, field, sb, major, minor, patch, preRelease,
          build, err, result, first, a, b, res>>

NoError == [Position |-> -1, Message |-> "", Arg |-> <<>>, Prefix |-> <<>>]
NoResult == [op |-> "", val |-> FALSE]

\* &ParseError{Position: ..., Message: ...}; Arg is the text a %c or %q
\* verb puts after the message, Prefix the wrapping of fmt.Errorf("...: %w")
ParseError(position, message, arg) ==
    [Position |-> position, Message |-> message, Arg |-> arg, Prefix |-> <<>>]

Wrap(prefix, e) == [e EXCEPT !.Prefix = prefix \o @]

(***************************************************************************)
(* Parser: character tests                                                 *)
(***************************************************************************)
match(ch) == pos < Len(input) /\ input[pos + 1] = ch

matchDigit ==
    pos < Len(input) /\ Ord(input[pos + 1]) >= 48 /\ Ord(input[pos + 1]) <= 57

matchLetter ==
    pos < Len(input)
      /\ \/ Ord(input[pos + 1]) >= 65 /\ Ord(input[pos + 1]) <= 90
         \/ Ord(input[pos + 1]) >= 97 /\ Ord(input[pos + 1]) <= 122

\* the wrapping ParseVersion puts around an error of the running rule
RulePrefix ==
    IF field = "pre-release" THEN <<"invalid pre-release">>
    ELSE IF field = "build" THEN <<"invalid build">>
    ELSE <<"invalid version core">>

Fail(e) ==
    /\ err' = e
    /\ pc' = "done"

\* parseVersionCore after parseNumericIdentifier returned num for field
StoreNumber(num) ==
    /\ major' = IF field = "major" THEN num ELSE major
    /\ minor' = IF field = "minor" THEN num ELSE minor
    /\ patch' = IF field = "patch" THEN num ELSE patch
    /\ pc' = IF field = "patch" THEN "hyphen" ELSE "dot"

ParserInit ==
    /\ input \in Inputs
    /\ pos = 0
    /\ pc = "numeric"
    /\ field = "major"
    /\ sb = <<>>
    /\ major = 0 /\ minor = 0 /\ patch = 0
    /\ preRelease = <<>> /\ build = <<>>
    /\ err = NoError
    /\ result = NoVersion
    /\ first = NoVersion

CmpIdle == a = NoVersion /\ b = NoVersion /\ res = NoResult

Init == ParserInit /\ CmpIdle

(***************************************************************************)
(* Parser: one action per step of the recursive descent                    *)
(***************************************************************************)
LeadingZeroPositionAfter(p) == p

LeadingZeroPosition(p) == p - 1

\* parseNumericIdentifier, the branch p.match('0')
ParseZero ==
    /\ pc = "numeric"
    /\ match("0")
    /\ pos' = pos + 1
    /\ IF pos + 1 < Len(input) /\ IsDigitByte(input[pos + 2])
       THEN /\ Fail(Wrap(<<"invalid version core", field>>,
                     ParseError(LeadingZeroPosition(pos + 1),
                                "leading zero is not allowed", <<>>)))
            /\ UNCHANGED <<major, minor, patch>>
       ELSE /\ StoreNumber(0)
            /\ UNCHANGED err
    /\ UNCHANGED <<input, field, sb, preRelease, build, result, first>>
    /\ UNCHANGED cmpVars

EndOfInputPositionBefore(p) == IF p > 0 THEN p - 1 ELSE 0

EndOfInputPosition(p) == p

\* parseNumericIdentifier, else branch: appendPositiveDigit on a new builder
AppendPositiveDigit ==
    /\ pc = "numeric"
    /\ ~match("0")
    /\ IF pos >= Len(input)
       THEN /\ Fail(Wrap(<<"invalid version core", field>>,
                     ParseError(EndOfInputPosition(pos),
                                "unexpected end of input", <<>>)))
            /\ UNCHANGED <<pos, sb>>
       ELSE IF Ord(input[pos + 1]) < 49 \/ Ord(input[pos + 1]) > 57
       THEN /\ Fail(Wrap(<<"invalid version core", field>>,
                     ParseError(pos, "expected positive digit, got ",
                                <<input[pos + 1]>>)))
            /\ UNCHANGED <<pos, sb>>
       ELSE /\ sb' = <<input[pos + 1]>>
            /\ pos' = pos + 1
            /\ pc' = "appendDigits"
            /\ UNCHANGED err
    /\ UNCHANGED <<input, field, major, minor, patch, preRelease, build,
                   result, first>>
    /\ UNCHANGED cmpVars

\* appendDigits, one iteration of its loop
AppendDigits ==
    /\ pc = "appendDigits"
    /\ matchDigit
    /\ sb' = Append(sb, input[pos + 1])
    /\ pos' = pos + 1
    /\ UNCHANGED <<input, pc, field, major, minor, patch, preRelease, build,
                   err, result, first>>
    /\ UNCHANGED cmpVars

\* parseNumericIdentifier after appendDigits: strconv.Atoi(sb.String())
NumericDone ==
    /\ pc = "appendDigits"
    /\ ~matchDigit
    /\ IF Atoi(sb).ok
       THEN /\ StoreNumber(Atoi(sb).val)
            /\ UNCHANGED err
       ELSE /\ Fail(Wrap(<<"invalid version core", field>>,
                     ParseError(-1, "value out of range", sb)))
            /\ UNCHANGED <<major, minor, patch>>
    /\ UNCHANGED <<input, pos, field, sb, preRelease, build, result, first>>
    /\ UNCHANGED cmpVars

MissingDotNamed(p) ==
    Wrap(<<"invalid version core", field>>,
         ParseError(p, "missing dot separator", <<>>))

MissingDot(p) ==
    Wrap(<<"invalid version core">>, ParseError(p, "missing dot separator", <<>>))

\* a consume('.') that rewinds the cursor when the '.' is missing
ConsumeDotRewind ==
    /\ pc = "dot"
    /\ IF match(".")
       THEN /\ pos' = pos + 1
            /\ field' = IF field = "major" THEN "minor" ELSE "patch"
            /\ pc' = "numeric"
            /\ UNCHANGED err
       ELSE /\ Fail(MissingDot(pos))
            /\ pos' = 0
            /\ UNCHANGED field
    /\ UNCHANGED <<input, sb, major, minor, patch, preRelease, build,
                   result, first>>
    /\ UNCHANGED cmpVars

\* parseVersionCore: p.consume('.') after major and after minor
ConsumeDot ==
    /\ pc = "dot"
    /\ IF match(".")
       THEN /\ pos' = pos + 1
            /\ field' = IF field = "major" THEN "minor" ELSE "patch"
            /\ pc' = "numeric"
            /\ UNCHANGED err
       ELSE /\ Fail(MissingDot(pos))
            /\ UNCHANGED <<pos, field>>
    /\ UNCHANGED <<input, sb, major, minor, patch, preRelease, build,
                   result, first>>
    /\ UNCHANGED cmpVars

\* ParseVersion: if p.match('-') { p.pos++; p.parsePreRelease() }
MatchHyphen ==
    /\ pc = "hyphen"
    /\ IF match("-")
       THEN /\ pos' = pos + 1
            /\ field' = "pre-release"
            /\ sb' = <<>>
            /\ pc' = "identifier"
       ELSE /\ pc' = "plus"
            /\ UNCHANGED <<pos, field, sb>>
    /\ UNCHANGED <<input, major, minor, patch, preRelease, build, err,
                   result, first>>
    /\ UNCHANGED cmpVars

\* ParseVersion: if p.match('+') { p.pos++; p.parseBuild() }
MatchPlus ==
    /\ pc = "plus"
    /\ IF match("+")
       THEN /\ pos' = pos + 1
            /\ field' = "build"
            /\ sb' = <<>>
            /\ pc' = "identifier"
       ELSE /\ pc' = "trailing"
            /\ UNCHANGED <<pos, field, sb>>
    /\ UNCHANGED <<input, major, minor, patch, preRelease, build, err,
                   result, first>>
    /\ UNCHANGED cmpVars

IdentifierExpected(p) ==
    ParseError(p, "expected alphanumeric identifier, got ", <<>>)

IdentifierEndOfInput(p) == ParseError(p, "unexpected end of input", <<>>)

\* appendAlphanumericIdentifier, its end-of-input test
IdentifierStart ==
    /\ pc = "identifier"
    /\ IF pos >= Len(input)
       THEN Fail(Wrap(RulePrefix, IdentifierEndOfInput(pos)))
       ELSE /\ pc' = "identifierChars"
            /\ UNCHANGED err
    /\ UNCHANGED <<input, pos, field, sb, major, minor, patch, preRelease,
                   build, result, first>>
    /\ UNCHANGED cmpVars

\* appendAlphanumericIdentifier, one iteration of its loop
IdentifierChar ==
    /\ pc = "identifierChars"
    /\ matchLetter \/ matchDigit \/ match("-")
    /\ sb' = Append(sb, input[pos + 1])
    /\ pos' = pos + 1
    /\ UNCHANGED <<input, pc, field, major, minor, patch, preRelease, build,
                   err, result, first>>
    /\ UNCHANGED cmpVars

\* appendAlphanumericIdentifier after its loop: the sb.Len() == 0 test; the
\* builder is the one of the whole section
IdentifierEnd ==
    /\ pc = "identifierChars"
    /\ ~(matchLetter \/ matchDigit \/ match("-"))
    /\ IF Len(sb) = 0
       THEN Fail(Wrap(RulePrefix,
                      ParseError(pos, "expected alphanumeric identifier, got ",
                                 <<input[pos + 1]>>)))
       ELSE /\ pc' = "sectionDot"
            /\ UNCHANGED err
    /\ UNCHANGED <<input, pos, field, sb, major, minor, patch, preRelease,
                   build, result, first>>
    /\ UNCHANGED cmpVars

\* parsePreRelease / parseBuild: for p.consume('.') { ... }; return sb.String()
SectionDot ==
    /\ pc = "sectionDot"
    /\ IF match(".")
       THEN /\ pos' = pos + 1
            /\ sb' = Append(sb, ".")
            /\ pc' = "identifier"
            /\ UNCHANGED <<preRelease, build>>
       ELSE /\ preRelease' = IF field = "pre-release" THEN sb ELSE preRelease
            /\ build' = IF field = "build" THEN sb ELSE build
            /\ pc' = IF field = "pre-release" THEN "plus" ELSE "trailing"
            /\ UNCHANGED <<pos, sb>>
    /\ UNCHANGED <<input, field, major, minor, patch, err, result, first>>
    /\ UNCHANGED cmpVars

\* ParseVersion: the trailing-characters test and the returned Version
Finish ==
    /\ pc = "trailing"
    /\ IF pos < Len(input)
       THEN /\ err' = ParseError(pos, "unexpected trailing characters: ",
                                 SubSeq(input, pos + 1, Len(input)))
            /\ UNCHANGED result
       ELSE /\ result' = Version(major, minor, patch, preRelease, build)
            /\ UNCHANGED err
    /\ pc' = "done"
    /\ UNCHANGED <<input, pos, field, sb, major, minor, patch, preRelease,
                   build, first>>
    /\ UNCHANGED cmpVars

\* the caller renders the parsed Version and parses the rendering again
Reparse ==
    /\ pc = "done"
    /\ err = NoError
    /\ first = NoVersion
    /\ first' = result
    /\ input' = String(result)
    /\ pos' = 0
    /\ pc' = "numeric"
    /\ field' = "major"
    /\ sb' = <<>>
    /\ major' = 0 /\ minor' = 0 /\ patch' = 0
    /\ preRelease' = <<>> /\ build' = <<>>
    /\ result' = NoVersion
    /\ UNCHANGED err
    /\ UNCHANGED cmpVars

Next ==
    \/ ParseZero
    \/ AppendPositiveDigit
    \/ AppendDigits
    \/ NumericDone
    \/ ConsumeDot
    \/ MatchHyphen
    \/ MatchPlus
    \/ IdentifierStart
    \/ IdentifierChar
    \/ IdentifierEnd
    \/ SectionDot
    \/ Finish
    \/ Reparse

Spec == Init /\ [][Next]_vars

(***************************************************************************)
(* Comparator: operands and calls                                          *)
(***************************************************************************)
\* numeric, leading-zero, hyphenated and alphabetic identifiers
Identifiers == {<<"1">>, <<"0", "1">>, <<"-", "1">>, <<"a">>}

RECURSIVE Join(_)
Join(ids) ==
    IF Len(ids) = 0 THEN <<>>
    ELSE IF Len(ids) = 1 THEN ids[1]
    ELSE ids[1] \o <<".">> \o Join(Tail(ids))

\* the PreRelease strings of one to MaxIds identifiers, and the absent one
PreReleases == {Join(ids) : ids \in Strings(Identifiers, MaxIds)}

Builds == {<<>>, <<"b">>}

\* the version cores, one differing from 1.0.0 in each core field, and the
\* pre-releases that are combined with every core and every build
Cores == {<<1, 0, 0>>, <<1, 0, 1>>, <<1, 1, 0>>, <<2, 0, 0>>, <<0, 1, 1>>}
CorePreReleases == {<<>>, <<"1">>, <<"a">>}

alpha == <<"a", "l", "p", "h", "a">>
beta == <<"b", "e", "t", "a">>

\* 1.0.0-alpha < 1.0.0-alpha.1 < 1.0.0-alpha.beta < 1.0.0-beta
\*   < 1.0.0-beta.2 < 1.0.0-beta.11 < 1.0.0-rc.1 < 1.0.0
Chain ==
    << Version(1, 0, 0, alpha, <<>>),
       Version(1, 0, 0, alpha \o <<".", "1">>, <<>>),
       Version(1, 0, 0, alpha \o <<".">> \o beta, <<>>),
       Version(1, 0, 0, beta, <<>>),
       Version(1, 0, 0, beta \o <<".", "2">>, <<>>),
       Version(1, 0, 0, beta \o <<".", "1", "1">>, <<>>),
       Version(1, 0, 0, <<"r", "c", ".", "1">>, <<>>),
       Version(1, 0, 0, <<>>, <<>>) >>

\* pre-releases with an empty identifier, a lone hyphen, mixed identifiers
OddPreReleases ==
    {<<"a", ".", ".", "1">>, <<"a", ".">>, <<"-">>, <<"a", ".", "-">>,
     <<"1", "a">>, <<"2">>, <<"1", "0">>, <<"0", "2", "0", "0">>,
     <<"0", "3", "0">>}

\* the operands of TestBefore's last case: 1.2.3-rc.0200 and 1.2.3-rc.030
rc0200 == Version(1, 2, 3, <<"r", "c", ".", "0", "2", "0", "0">>, <<>>)
rc030 == Version(1, 2, 3, <<"r", "c", ".", "0", "3", "0">>, <<>>)

CmpVersions ==
    {Version(1, 0, 0, p, <<>>) : p \in PreReleases \cup OddPreReleases}
      \cup {Version(c[1], c[2], c[3], p, bd) :
               c \in Cores, p \in CorePreReleases, bd \in Builds}
      \cup {Chain[i] : i \in 1..Len(Chain)}
      \cup {rc0200, rc030}

ParserIdle ==
    /\ input = <<>>
    /\ pos = 0
    /\ pc = "idle"
    /\ field = ""
    /\ sb = <<>>
    /\ major = 0 /\ minor = 0 /\ patch = 0
    /\ preRelease = <<>> /\ build = <<>>
    /\ err = NoError
    /\ result = NoVersion
    /\ first = NoVersion

CmpInit ==
    /\ ParserIdle
    /\ a \in CmpVersions
    /\ b \in CmpVersions
    /\ res = NoResult

\* a.Equals(b)
CallEquals ==
    /\ res' = [op |-> "Equals", val |-> Equals(a, b)]
    /\ UNCHANGED <<a, b>>
    /\ UNCHANGED parserVars

\* a.Before(b)
CallBefore ==
    /\ res' = [op |-> "Before", val |-> Before(a, b)]
    /\ UNCHANGED <<a, b>>
    /\ UNCHANGED parserVars

CmpNext == CallEquals \/ CallBefore

SpecCmp == CmpInit /\ [][CmpNext]_vars

(***************************************************************************)
(* Inputs described by their text                                          *)
(***************************************************************************)
FieldNames == <<"major", "minor", "patch">>

\* field k of the version core begins at offset o: what precedes it is k - 1
\* valid numerals, each followed by '.'
FieldBeginsAt(s, k, o) ==
    IF k = 1 THEN o = 0
    ELSE /\ o >= 2 /\ o <= Len(s)
         /\ s[o] = "."
         /\ Len(Split(SubSeq(s, 1, o - 1))) = k - 1
         /\ \A n \in 1..(k - 1) : ValidNumeral(Split(SubSeq(s, 1, o - 1))[n])

\* field k begins at offset o with '0' and a digit after it
LeadingZeroAt(s, k, o) ==
    /\ FieldBeginsAt(s, k, o)
    /\ o + 2 <= Len(s)
    /\ s[o + 1] = "0"
    /\ IsDigitByte(s[o + 2])

\* the numeral of field k (major or minor) ends at offset o and no '.' follows
DotMissingAt(s, k, o) ==
    /\ o >= 1 /\ o <= Len(s)
    /\ Len(Split(SubSeq(s, 1, o))) = k
    /\ \A n \in 1..k : ValidNumeral(Split(SubSeq(s, 1, o))[n])
    /\ o < Len(s) => (s[o + 1] # "." /\ ~IsDigitByte(s[o + 1]))

Range(f) == {f[i] : i \in 1..Len(f)}

\* a valid version core, then a section with a zero-length identifier
EmptyIdentifierInput(s) ==
    /\ ValidCore(CorePart(s))
    /\ \/ HasPre(s) /\ <<>> \in Range(Split(PrePart(s)))
       \/ HasBuild(s) /\ <<>> \in Range(Split(BuildPart(s)))

\* a valid version core, then a section that is introduced and ends at once
PreEndsAtOnce(s) == ValidCore(CorePart(s)) /\ AfterCore(s) = <<"-">>
BuildEndsAtOnce(s) ==
    /\ ValidCore(CorePart(s))
    /\ HasPre(s) => ValidSection(PrePart(s))
    /\ AfterPre(s) = <<"+">>

(***************************************************************************)
(* Properties of the comparator, checked under SpecCmp                     *)
(***************************************************************************)
SameCore(v, w) == v.Major = w.Major /\ v.Minor = w.Minor /\ v.Patch = w.Patch

WithBuild(v, bd) == [v EXCEPT !.Build = bd]

\* C1: Before holds of every adjacent pair of the chain 1.0.0-alpha <
\* 1.0.0-alpha.1 < 1.0.0-alpha.beta < 1.0.0-beta < 1.0.0-beta.2 <
\* 1.0.0-beta.11 < 1.0.0-rc.1 < 1.0.0 and fails of the pair reversed; a
\* version without pre-release is never Before one of the same core with a
\* pre-release.
ChainOrdered ==
    res.op = "Before" =>
        /\ \A i \in 1..(Len(Chain) - 1) :
              /\ (a = Chain[i] /\ b = Chain[i + 1]) => res.val
              /\ (a = Chain[i + 1] /\ b = Chain[i]) => ~res.val
        /\ (SameCore(a, b) /\ a.PreRelease = <<>> /\ b.PreRelease # <<>>)
              => ~res.val

ChainCompared ==
    /\ res.op = "Before"
    /\ a = Chain[5]
    /\ b = Chain[6]
    /\ res.val

\* C2: Build never influences Equals or Before: replacing the Build of
\* either operand by any other leaves the result the same, and two versions
\* that differ only in Build are Equals and neither is Before the other.
BuildIgnored ==
    /\ \A x \in Builds, y \in Builds :
          /\ res.op = "Before"
                => res.val = Before(WithBuild(a, x), WithBuild(b, y))
          /\ res.op = "Equals"
                => res.val = Equals(WithBuild(a, x), WithBuild(b, y))
    /\ (a = WithBuild(b, a.Build) /\ res.op = "Equals") => res.val
    /\ (a = WithBuild(b, a.Build) /\ res.op = "Before") => ~res.val

BuildsDiffer ==
    /\ res.op = "Equals"
    /\ a.Build # b.Build
    /\ a = WithBuild(b, a.Build)
    /\ res.val

\* C3: Before is a strict order: irreflexive, asymmetric and transitive,
\* also over identifiers of mixed forms and pre-releases of unequal length.
StrictOrder ==
    /\ (res.op = "Before" /\ a = b) => ~res.val
    /\ (res.op = "Before" /\ res.val) =>
          /\ ~Before(b, a)
          /\ \A c \in CmpVersions : Before(b, c) => Before(a, c)

MixedCompared ==
    /\ res.op = "Before"
    /\ res.val
    /\ a.PreRelease = <<"-", "1">>
    /\ b.PreRelease = <<"0", "1", ".", "a">>

\* C4: exactly one of Before(a, b), Before(b, a), Equals(a, b) holds.
Trichotomy ==
    res.op = "Equals" =>
        /\ ~res.val => (Before(a, b) \/ Before(b, a))
        /\ res.val => (~Before(a, b) /\ ~Before(b, a))

(***************************************************************************)
(* Properties of the parser, checked under Spec                            *)
(***************************************************************************)
\* C5: the rendering of an accepted input parses again, to a Version with
\* the same Major, Minor, Patch, PreRelease and Build.
RoundTrip ==
    /\ (pc = "done" /\ first # NoVersion) =>
          /\ err = NoError
          /\ result = first
          /\ Equals(result, first)
    /\ (pc = "done" /\ ParseVersion(input).ok) =>
          ParseVersion(String(ParseVersion(input).v)) = ParseVersion(input)

Reparsed ==
    /\ pc = "done"
    /\ first # NoVersion
    /\ result = first
    /\ first.PreRelease # <<>>
    /\ first.Build # <<>>

\* C6: a core field that begins with '0' and a digit fails with 'leading
\* zero is not allowed', wrapped with the field's name, at the offset of
\* that '0'.
LeadingZeroRejected ==
    pc = "done" =>
        \A k \in 1..3, o \in 0..Len(input) :
            LeadingZeroAt(input, k, o) =>
                err = Wrap(<<"invalid version core", FieldNames[k]>>,
                           ParseError(o, "leading zero is not allowed", <<>>))

LeadingZeroSeen ==
    /\ pc = "done"
    /\ input = <<"1", ".", "0", "0", ".", "0">>
    /\ err.Position = 2
    /\ err.Prefix = <<"invalid version core", "minor">>
    /\ err.Message = "leading zero is not allowed"

\* C7: an input that ends where major, minor or patch must begin fails with
\* 'unexpected end of input', wrapped with the field's name, at the length
\* of the input.
TruncationRejected ==
    pc = "done" =>
        \A k \in 1..3 :
            FieldBeginsAt(input, k, Len(input)) =>
                err = Wrap(<<"invalid version core", FieldNames[k]>>,
                           ParseError(Len(input), "unexpected end of input",
                                      <<>>))

TruncationSeen ==
    /\ pc = "done"
    /\ input = <<"1", ".", "0", ".">>
    /\ err.Position = 4
    /\ err.Prefix = <<"invalid version core", "patch">>
    /\ err.Message = "unexpected end of input"

\* C8: an input with a valid core and a zero-length identifier in its
\* pre-release or build section is rejected, and no Version is returned.
EmptyIdentifierRejected ==
    (pc = "done" /\ EmptyIdentifierInput(input)) =>
        (err # NoError /\ result = NoVersion)

\* C9 as stated: a section that ends right after its '-' or '+' fails with
\* 'expected alphanumeric identifier' at the position after the separator.
EmptySectionExpectsIdentifier ==
    (pc = "done" /\ (PreEndsAtOnce(input) \/ BuildEndsAtOnce(input))) =>
        /\ err.Message = "expected alphanumeric identifier, got "
        /\ err.Position = Len(input)

\* C9 amended: such an input fails with 'unexpected end of input', wrapped
\* with the section's name, at the position after the separator.
EmptySectionEndOfInput ==
    pc = "done" =>
        /\ PreEndsAtOnce(input) =>
              err = Wrap(<<"invalid pre-release">>,
                         ParseError(Len(input), "unexpected end of input",
                                    <<>>))
        /\ BuildEndsAtOnce(input) =>
              err = Wrap(<<"invalid build">>,
                         ParseError(Len(input), "unexpected end of input",
                                    <<>>))

EmptySectionSeen ==
    /\ pc = "done"
    /\ input = <<"1", ".", "0", ".", "0", "-", "a", "+">>
    /\ err.Position = 8
    /\ err.Prefix = <<"invalid build">>

\* C10 as stated: a major or minor numeral not followed by '.' fails with
\* 'missing dot separator' at the offset of the expected '.', and the error
\* names the field being parsed.
MissingDotNamesField ==
    pc = "done" =>
        \A k \in 1..2, o \in 1..Len(input) :
            DotMissingAt(input, k, o) =>
                /\ err.Message = "missing dot separator"
                /\ err.Position = o
                /\ Range(err.Prefix) \cap Range(FieldNames) # {}

\* C10 amended: such an input fails with 'missing dot separator' at the
\* offset of the expected '.', wrapped only as 'invalid version core'; the
\* error names no field.
MissingDotRejected ==
    pc = "done" =>
        \A k \in 1..2, o \in 1..Len(input) :
            DotMissingAt(input, k, o) =>
                err = [Position |-> o, Message |-> "missing dot separator",
                       Arg |-> <<>>, Prefix |-> <<"invalid version core">>]

MissingDotSeen ==
    /\ pc = "done"
    /\ input = <<"1", ".", "1", "0", "a">>
    /\ err.Position = 4
    /\ err.Message = "missing dot separator"

(***************************************************************************)
(* Numeric identifiers in the comparison, checked under SpecCmp            *)
(***************************************************************************)
\* Go's three-way comparison of two strings
StrCompare(x, y) == IF StrLess(x, y) THEN -1 ELSE IF StrLess(y, x) THEN 1 ELSE 0

\* C11: an identifier is compared by integer value only when it is a
\* SemVer numeric identifier; two identifiers of which neither is one are
\* compared as ASCII strings, one that is sorts before one that is not, and
\* Before(1.2.3-rc.0200, 1.2.3-rc.030) is true.
NumericOnlyWithoutLeadingZero ==
    res.op = "Before" =>
        /\ (a = rc0200 /\ b = rc030) => res.val
        /\ \A i \in 1..Len(Split(a.PreRelease)) :
              (/\ SameCore(a, b)
               /\ a.PreRelease # <<>>
               /\ b.PreRelease # <<>>
               /\ i <= Len(Split(b.PreRelease))) =>
                 LET x == Split(a.PreRelease)[i]
                     y == Split(b.PreRelease)[i]
                 IN  /\ (~ValidNumeral(x) /\ ~ValidNumeral(y))
                           => compareIdentifiers(x, y) = StrCompare(x, y)
                     /\ (ValidNumeral(x) /\ ~ValidNumeral(y))
                           => compareIdentifiers(x, y) = -1

(***************************************************************************)
(* The cursor of the parser, checked under Spec                            *)
(***************************************************************************)
\* the statements that read p.input[p.pos] without testing p.pos in the same
\* expression: appendAlphanumericIdentifier's error message after its loop
UntestedRead ==
    /\ pc = "identifierChars"
    /\ ~(matchLetter \/ matchDigit \/ match("-"))
    /\ Len(sb) = 0

CursorInBounds ==
    /\ pos >= 0
    /\ pos <= Len(input)
    /\ UntestedRead => pos < Len(input)
    /\ err # NoError => (err.Position >= 0 /\ err.Position <= Len(input))

\* C12: while an input is parsed 0 <= pos <= len(input), no step decreases
\* pos, every byte is read at an index below len(input), and the position
\* of every error lies in 0..len(input).
CursorForwardOnly ==
    /\ []CursorInBounds
    /\ [][first' = first => pos' >= pos]_vars

CursorAtEnd ==
    /\ pc = "done"
    /\ err = NoError
    /\ pos = Len(input)
    /\ pos >= 9
    /\ result.PreRelease # <<>>
    /\ result.Build # <<>>

====
